---- MODULE Spec2Model ----
(***************************************************************************)
(* A model of the d-analyze backend: the four HTTP handlers of app.py      *)
(* (upload_file, analyze_data_endpoint, search, upload_from_url), the     *)
(* file type check allowed_file of file_utils.py and the catalog filter    *)
(* filter_resources of app.py.                                             *)
(*                                                                         *)
(* Text is modelled as a sequence of one-character strings, a byte blob    *)
(* as a sequence of integers 0..255, a Python dict as a record.            *)
(***************************************************************************)
EXTENDS Integers, Sequences, FiniteSets, TLC

VARIABLES
    pc,      \* per worker: the position of the request it handles
    req,     \* per worker: the request being handled
    log,     \* per worker: the outcome of each collaborator call of the request
    loc,     \* per worker: the handler's local variables
    resp,    \* per worker: the response of the handler
    fs,      \* UPLOAD_FOLDER: file name -> id of the request whose content it holds
    nextId,  \* number of requests received so far
    af,      \* allowed_file applied to one file: its inputs and its result
    fr       \* filter_resources applied to one catalog response

vars == <<pc, req, log, loc, resp, fs, nextId, af, fr>>

(***************************************************************************)
(* Bounds of the model.                                                    *)
(***************************************************************************)
MaxBlobLen == 2
MaxPackages == 2
MaxResources == 2
MaxRequests == 2

(***************************************************************************)
(* Text helpers.                                                           *)
(***************************************************************************)
Max(S) == CHOOSE x \in S : \A y \in S : y <= x

SeqsUpTo(S, n) == UNION {[1..k -> S] : k \in 0..n}

\* str.lower() on one character
LowerChar(c) ==
    CASE c = "C" -> "c"
      [] c = "S" -> "s"
      [] c = "V" -> "v"
      [] c = "X" -> "x"
      [] OTHER -> c

\* str.lower()
lower(s) == [i \in 1..Len(s) |-> LowerChar(s[i])]

Return(v) == [kind |-> "return", value |-> v, exc |-> "none"]
Raise(e) == [kind |-> "raise", value |-> FALSE, exc |-> e]

(***************************************************************************)
(* file_utils.py                                                           *)
(***************************************************************************)
ALLOWED_MIME_TYPES == {"text/csv"}

CSV == <<"c", "s", "v">>

\* filename.rsplit('.', 1): the parts around the last dot, or the whole
\* name alone when it has no dot
rsplit_dot(filename) ==
    LET dots == {i \in 1..Len(filename) : filename[i] = "."}
    IN  IF dots = {}
        THEN <<filename>>
        ELSE <<SubSeq(filename, 1, Max(dots) - 1),
               SubSeq(filename, Max(dots) + 1, Len(filename))>>

\* UTF-8 validity of a blob whose bytes are below 0xE0 (one- and two-byte
\* sequences)
RECURSIVE Utf8Valid(_)
Utf8Valid(blob) ==
    IF blob = <<>> THEN TRUE
    ELSE IF blob[1] < 128 THEN Utf8Valid(Tail(blob))
    ELSE IF blob[1] \in 194..223
         THEN /\ Len(blob) >= 2
              /\ blob[2] \in 128..191
              /\ Utf8Valid(SubSeq(blob, 3, Len(blob)))
    ELSE FALSE

\* bytes.decode(encoding): "ok" or the name of the exception it raises
decode(blob, encoding) ==
    CASE encoding = "None" -> "TypeError"
      [] encoding = "ascii" ->
            IF \A i \in 1..Len(blob) : blob[i] < 128 THEN "ok" ELSE "UnicodeDecodeError"
      [] encoding = "utf-8" ->
            IF Utf8Valid(blob) THEN "ok" ELSE "UnicodeDecodeError"
      [] encoding = "ISO-8859-1" -> "ok"
      [] OTHER -> "LookupError"

\* allowed_file(file); detected_encoding is what chardet.detect reports for
\* the blob, mime_type what magic.from_buffer reports
allowed_file(filename, blob, detected_encoding, mime_type) ==
    LET parts == rsplit_dot(filename)
    IN  IF Len(parts) < 2 THEN Raise("IndexError")
        ELSE LET file_extension == lower(parts[2])
                 decoded == decode(blob, detected_encoding)
             IN  IF file_extension = CSV /\ decoded = "ok"
                 THEN Return(TRUE)
                 ELSE IF file_extension = CSV /\ decoded # "UnicodeDecodeError"
                 THEN Raise(decoded)
                 ELSE Return(mime_type \in ALLOWED_MIME_TYPES)

(***************************************************************************)
(* app.py: filter_resources                                                *)
(***************************************************************************)
\* the same test with the lowercasing left out
has_csv_resource_case_sensitive(package) ==
    \E i \in 1..Len(package.resources) : package.resources[i].format \in {CSV}

\* any(resource['format'].lower() in ['csv'] for resource in package['resources'])
has_csv_resource(package) ==
    \E i \in 1..Len(package.resources) : lower(package.resources[i].format) \in {CSV}

filter_resources(data) ==
    IF "result" \notin DOMAIN data
    THEN data
    ELSE [data EXCEPT !.result.results = SelectSeq(@, has_csv_resource)]

(***************************************************************************)
(* werkzeug's secure_filename, as upload_file and upload_from_url use it   *)
(***************************************************************************)
\* the characters of [A-Za-z0-9_.-] that the model's names use
SafeChars == {"a", "b", "c", "d", "h", "s", "v", "x", "C", "S", "V", ".", "_", "-"}

\* the words of s joined by "_": "_".join(s.split())
RECURSIVE join_words(_, _, _)
join_words(s, out, gap) ==
    IF s = <<>> THEN out
    ELSE IF Head(s) = " " THEN join_words(Tail(s), out, out # <<>>)
    ELSE join_words(Tail(s), out \o (IF gap THEN <<"_">> ELSE <<>>) \o <<Head(s)>>, FALSE)

\* s.strip("._")
RECURSIVE strip_dots(_)
strip_dots(s) ==
    IF s = <<>> THEN s
    ELSE IF Head(s) \in {".", "_"} THEN strip_dots(Tail(s))
    ELSE IF s[Len(s)] \in {".", "_"} THEN strip_dots(SubSeq(s, 1, Len(s) - 1))
    ELSE s

IsSafeChar(c) == c \in SafeChars

secure_filename(filename) ==
    LET spaced == [i \in 1..Len(filename) |->
                      IF filename[i] = "/" THEN " " ELSE filename[i]]
    IN  strip_dots(SelectSeq(join_words(spaced, <<>>, FALSE), IsSafeChar))

\* url.split("/")[-1]
last_segment(url) ==
    LET slashes == {i \in 1..Len(url) : url[i] = "/"}
    IN  IF slashes = {} THEN url ELSE SubSeq(url, Max(slashes) + 1, Len(url))

(***************************************************************************)
(* Requests, responses and the record of collaborator calls               *)
(***************************************************************************)
Workers == {"w1", "w2"}

Collaborators ==
    {"request.get_json", "allowed_file", "file.save", "clean_and_store_data",
     "os.remove", "cursor.execute", "get_sql_query", "execute_query",
     "get_assistant_response", "generate_charts", "requests.get", "response.json"}

NoCalls == [c \in Collaborators |-> "uncalled"]

NoData == [none |-> TRUE]

NoResponse == [status |-> 0, body |-> "none", error |-> "", messages |-> <<>>, data |-> NoData]

\* jsonify({'error': message}), status
ErrorResponse(status, message) ==
    [status |-> status, body |-> "error", error |-> message, messages |-> <<>>, data |-> NoData]

\* jsonify({"messages": messages}); the status defaults to 200
MessagesResponse(messages) ==
    [status |-> 200, body |-> "messages", error |-> "", messages |-> messages, data |-> NoData]

\* Response(json.dumps({'upload_id': ..., 'sample_data': ...})), 200
UploadResponse == [status |-> 200, body |-> "upload", error |-> "", messages |-> <<>>, data |-> NoData]

\* jsonify(filtered_data), 200
CatalogResponse(data) ==
    [status |-> 200, body |-> "catalog", error |-> "", messages |-> <<>>, data |-> data]

\* an exception that leaves the handler
Propagated(exc) ==
    [status |-> 0, body |-> "exception", error |-> exc, messages |-> <<>>, data |-> NoData]

\* what the body of a try block does: return a response, raise, or go on
Returned(response, calls) == [kind |-> "return", resp |-> response, exc |-> "none", calls |-> calls]
Raised(exc, calls) == [kind |-> "raise", resp |-> NoResponse, exc |-> exc, calls |-> calls]

\* request.get_json() / request.json: the parsed body. A request without a
\* JSON body makes it raise or return None, depending on the Flask release.
get_json(body, on_absent) ==
    CASE body = "absent" -> on_absent
      [] body = "array" -> "list"
      [] OTHER -> "dict"

\* Python truthiness of a string or None
truthy(text) == text \notin {"None", ""}

(***************************************************************************)
(* POST /analyze_data/<upload_id>                                          *)
(***************************************************************************)
\* database.execute_query: a database-reported error (syntax, missing
\* column or table, type mismatch) is signalled as QueryExecutionError
execute_query(db_error) == IF db_error THEN "raise" ELSE "ok"

\* the test "cleaned_sql_query is not None" in the place of truthiness
has_sql_query_not_None(cleaned_sql_query) == cleaned_sql_query # "None"

\* "if cleaned_sql_query:"
has_sql_query(cleaned_sql_query) == truthy(cleaned_sql_query)

AnalyzeOutcomes ==
    [get_json : {"raise", "None"},
     describe : {"ok", "raise"},
     sql : {"SELECT", "", "None", "raise"},
     db_error : BOOLEAN,
     narration : {"ok", "raise"},
     chart : {"chart", "None", "raise"}]

NarrationMessage == [role |-> "assistant", content |-> "assistant_response"]
ChartMessage == [role |-> "chart", content |-> "chart_string"]
NoQueryMessage == [role |-> "assistant", content |-> "Could not generate an SQL query"]

\* the try block of analyze_data_endpoint; o holds what each collaborator
\* does when called
analyze_try(r, o) ==
    LET payload == get_json(r.body, o.get_json)
        c0 == [NoCalls EXCEPT !["request.get_json"] = payload]
        c1 == [c0 EXCEPT !["cursor.execute"] = o.describe]
        c2 == [c1 EXCEPT !["get_sql_query"] = o.sql]
        c3 == [c2 EXCEPT !["execute_query"] = execute_query(o.db_error)]
        c4 == [c3 EXCEPT !["get_assistant_response"] = o.narration]
        c5 == [c4 EXCEPT !["generate_charts"] = o.chart]
    IN  IF payload = "raise" THEN Raised("BadRequest", c0)
        ELSE IF payload # "dict" THEN Raised("AttributeError", c0)
        ELSE IF ~truthy(r.query)
             THEN Returned(ErrorResponse(400, "No query provided"), c0)
        ELSE IF o.describe = "raise" THEN Raised("DatabaseError", c1)
        ELSE IF o.sql = "raise" THEN Raised("SynthesisError", c2)
        ELSE IF has_sql_query(o.sql)
             THEN IF c3["execute_query"] = "raise" THEN Raised("QueryExecutionError", c3)
                  ELSE IF o.narration = "raise" THEN Raised("NarrationError", c4)
                  ELSE IF o.chart = "raise" THEN Raised("ChartError", c5)
                  ELSE Returned(MessagesResponse(
                           <<NarrationMessage>> \o
                           (IF truthy(o.chart) THEN <<ChartMessage>> ELSE <<>>)), c5)
        ELSE Returned(MessagesResponse(<<NoQueryMessage>>), c2)

\* an except clause that lets the exception through
except_missing(t, message) ==
    IF t.kind = "raise" THEN Propagated(t.exc) ELSE t.resp

\* "except Exception as e: return jsonify({'error': ...}), 500" around a
\* try block that did t
except_Exception(t, message) ==
    IF t.kind = "raise" THEN ErrorResponse(500, message) ELSE t.resp

analyze_data_endpoint(r, o) ==
    LET t == analyze_try(r, o)
    IN  [resp |-> except_Exception(t, "Error analyzing data"), calls |-> t.calls]

(***************************************************************************)
(* POST /search                                                            *)
(***************************************************************************)
Package(formats) ==
    [resources |-> [i \in 1..Len(formats) |-> [format |-> formats[i]]]]

CatalogResult(packages) ==
    [success |-> TRUE, result |-> [count |-> Len(packages), results |-> packages]]

CatalogError == [success |-> FALSE, error |-> "Not found"]

XLS == <<"x", "l", "s">>
UpperCSV == <<"C", "S", "V">>

SearchCatalogs ==
    {CatalogError,
     CatalogResult(<<>>),
     CatalogResult(<<Package(<<XLS, UpperCSV>>), Package(<<XLS>>), Package(<<CSV>>)>>)}

SearchOutcomes ==
    [get_json : {"raise", "None"},
     get : {"200", "503", "raise"},
     json : {"ok", "raise"},
     data : SearchCatalogs]

\* the try block of search
search_try(r, o) ==
    LET payload == get_json(r.body, o.get_json)
        c0 == [NoCalls EXCEPT !["request.get_json"] = payload]
        c1 == [c0 EXCEPT !["requests.get"] = o.get]
        c2 == [c1 EXCEPT !["response.json"] = o.json]
    IN  IF payload = "raise" THEN Raised("BadRequest", c0)
        ELSE IF payload # "dict" THEN Raised("AttributeError", c0)
        ELSE IF ~truthy(r.query)
             THEN Returned(ErrorResponse(400, "No query provided"), c0)
        ELSE IF o.get = "raise" THEN Raised("ConnectionError", c1)
        ELSE IF o.json = "raise" THEN Raised("JSONDecodeError", c2)
        ELSE Returned(CatalogResponse(filter_resources(o.data)), c2)

search(r, o) ==
    LET t == search_try(r, o)
    IN  [resp |-> except_Exception(t, "Error in search"), calls |-> t.calls]

(***************************************************************************)
(* The inputs of the upload handlers                                       *)
(***************************************************************************)
Bytes == {44, 65, 169, 195, 255}
Blobs == SeqsUpTo(Bytes, MaxBlobLen)

\* the contents of the files the requests carry: an empty file, a line of
\* text, a byte that no text encoding yields
UploadedBlobs == {<<>>, <<65, 44, 65>>, <<255>>}

Encodings == {"None", "ascii", "utf-8", "ISO-8859-1", "EUC-TW"}

\* chardet.detect(blob)['encoding']: None for an empty blob, otherwise
\* whatever the statistics yield
chardet_detect(blob) == IF blob = <<>> THEN {"None"} ELSE Encodings

\* magic.from_buffer(blob, mime=True)
magic_from_buffer(blob) ==
    IF blob = <<>> THEN {"application/x-empty"}
    ELSE {"text/csv", "text/plain", "application/octet-stream"}

Filenames ==
    {<<>>,
     <<"a", ".", "c", "s", "v">>,
     <<".", ".", "/", "a", ".", "c", "s", "v">>,
     <<"a">>}

\* the value of request.json.get('url', ''): '' stands for a missing url too
Urls ==
    {<<>>,
     <<"h", ":", "/", "/", "x", "/", "a", ".", "c", "s", "v">>,
     <<"h", ":", "/", "/", "x", "/", "b", ".", "C", "S", "V">>,
     <<"h", ":", "/", "/", "x", "/">>}

\* os.path.join(app.config['UPLOAD_FOLDER'], filename): a file of the
\* upload folder is named by its file name
Paths == {secure_filename(f) : f \in Filenames \cup {last_segment(u) : u \in Urls}} \ {<<>>}

NoLocals ==
    [file_path |-> <<>>, pending |-> NoResponse, result |-> "none",
     ingested |-> 0, wrote |-> FALSE]

Continue(file_path, calls) ==
    [kind |-> "continue", resp |-> NoResponse, exc |-> "none", calls |-> calls,
     file_path |-> file_path]

\* the result of allowed_file as the record of calls keeps it
CallOutcome(a) == IF a.kind = "raise" THEN "raise" ELSE IF a.value THEN "True" ELSE "False"

\* file.save(file_path): the file is written, or the call raises before or
\* after it created the file
file_save == {"ok", "raise", "raise_partial"}

\* clean_and_store_data(file_path, file, conn) parses the file at file_path;
\* content is what the file holds (0: no such file). It returns an upload
\* id and sample rows, no upload id, or no rows, or it raises.
clean_and_store_data(content) ==
    IF content = 0 THEN {"raise"} ELSE {"ok", "None", "empty", "raise"}

\* os.remove(file_path)
os_remove(content) == IF content = 0 THEN {"raise"} ELSE {"ok", "raise"}

\* "if upload_id is not None and not sample_data.empty: ... else: ..."
ingest_response(result) ==
    IF result = "ok" THEN UploadResponse ELSE ErrorResponse(400, "Error processing file")

(***************************************************************************)
(* POST /upload                                                            *)
(***************************************************************************)
\* upload_file up to the inner try block
upload_begin(r, blob, detected_encoding, mime_type) ==
    IF ~r.has_file
    THEN Returned(ErrorResponse(400, "No file part in the request"), NoCalls)
    ELSE IF r.filename = <<>>
    THEN Returned(ErrorResponse(400, "No selected file"), NoCalls)
    ELSE LET a == allowed_file(r.filename, blob, detected_encoding, mime_type)
             c1 == [NoCalls EXCEPT !["allowed_file"] = CallOutcome(a)]
         IN  IF a.kind = "raise" THEN Raised(a.exc, c1)
             ELSE IF a.value THEN Continue(secure_filename(r.filename), c1)
             ELSE Returned(ErrorResponse(400, "Unsupported file type"), c1)

\* upload_file after the finally clause ran os.remove with this outcome
upload_end(l, removed) ==
    IF removed = "raise"
    THEN except_Exception(Raised("OSError", NoCalls), "Unhandled exception")
    ELSE IF l.pending # NoResponse THEN l.pending
    ELSE ingest_response(l.result)

(***************************************************************************)
(* POST /upload_from_url                                                   *)
(***************************************************************************)
\* requests.get(url, allow_redirects=True): an empty url has no scheme
requests_get(url) ==
    IF url = <<>> THEN {"raise"} ELSE {"200", "200_no_content_type", "404", "raise"}

\* upload_from_url up to file.save
url_begin(r, on_absent, got, blob, detected_encoding, mime_type) ==
    LET payload == get_json(r.body, on_absent)
        c0 == [NoCalls EXCEPT !["request.get_json"] = payload]
        c1 == [c0 EXCEPT !["requests.get"] = got]
        filename == last_segment(r.url)
        a == allowed_file(filename, blob, detected_encoding, mime_type)
        c2 == [c1 EXCEPT !["allowed_file"] = CallOutcome(a)]
    IN  IF payload = "raise" THEN Raised("BadRequest", c0)
        ELSE IF payload # "dict" THEN Raised("AttributeError", c0)
        ELSE IF got = "raise" THEN Raised("RequestException", c1)
        ELSE IF got = "404"
             THEN Returned(ErrorResponse(500, "Error downloading file"), c1)
        ELSE IF got = "200_no_content_type" THEN Raised("KeyError", c1)
        ELSE IF filename = <<>>
             THEN Returned(ErrorResponse(400, "Unsupported file type"), c1)
        ELSE IF a.kind = "raise" THEN Raised(a.exc, c2)
        ELSE IF a.value THEN Continue(secure_filename(filename), c2)
        ELSE Returned(ErrorResponse(400, "Unsupported file type"), c2)

\* upload_from_url after clean_and_store_data did this
url_end(result) ==
    IF result = "raise"
    THEN except_Exception(Raised("IngestError", NoCalls), "Unhandled exception")
    ELSE ingest_response(result)

(***************************************************************************)
(* The server: each worker handles one request at a time                   *)
(***************************************************************************)
NoRequest ==
    [ep |-> "none", id |-> 0, body |-> "none", has_file |-> FALSE, filename |-> <<>>,
     query |-> "None", url |-> <<>>]

Request(ep, id, body, has_file, filename, query, url) ==
    [ep |-> ep, id |-> id, body |-> body, has_file |-> has_file, filename |-> filename,
     query |-> query, url |-> url]

\* the JSON bodies of a request: none, one that is no object, or an object
\* whose key holds one of the values (None: the key is missing)
JsonRequests(ep, id) ==
    {Request(ep, id, b, FALSE, <<>>, "None", <<>>) : b \in {"absent", "array"}}
    \cup (IF ep = "upload_from_url"
          THEN {Request(ep, id, "object", FALSE, <<>>, "None", u) : u \in Urls}
          ELSE {Request(ep, id, "object", FALSE, <<>>, q, <<>>) :
                    q \in {"None", "", "total amount"}})

Requests(id) ==
    {Request("upload", id, "form", FALSE, <<>>, "None", <<>>)}
    \cup {Request("upload", id, "form", TRUE, f, "None", <<>>) : f \in Filenames}
    \cup JsonRequests("analyze_data", id)
    \cup JsonRequests("search", id)
    \cup JsonRequests("upload_from_url", id)

NoAllowedFile ==
    [filename |-> <<>>, blob |-> <<>>, encoding |-> "None", mime |-> "none",
     applied |-> FALSE, result |-> Return(FALSE)]

NoFilter == [applied |-> FALSE, data |-> NoData, out |-> NoData]

Init ==
    /\ pc = [w \in Workers |-> "idle"]
    /\ req = [w \in Workers |-> NoRequest]
    /\ log = [w \in Workers |-> NoCalls]
    /\ loc = [w \in Workers |-> NoLocals]
    /\ resp = [w \in Workers |-> NoResponse]
    /\ fs = [p \in Paths |-> 0]
    /\ nextId = 0
    /\ af = NoAllowedFile
    /\ fr = NoFilter

\* a request arrives and is given to an idle worker
Receive(w) ==
    /\ pc[w] = "idle"
    /\ nextId < MaxRequests
    /\ \E r \in Requests(nextId + 1) : req' = [req EXCEPT ![w] = r]
    /\ nextId' = nextId + 1
    /\ pc' = [pc EXCEPT ![w] = "begin"]
    /\ UNCHANGED <<log, loc, resp, fs, af, fr>>

\* the response is sent, the worker is free again
Finish(w) ==
    /\ pc[w] = "done"
    /\ pc' = [pc EXCEPT ![w] = "idle"]
    /\ req' = [req EXCEPT ![w] = NoRequest]
    /\ log' = [log EXCEPT ![w] = NoCalls]
    /\ loc' = [loc EXCEPT ![w] = NoLocals]
    /\ resp' = [resp EXCEPT ![w] = NoResponse]
    /\ UNCHANGED <<fs, nextId, af, fr>>

Analyze(w) ==
    /\ pc[w] = "begin"
    /\ req[w].ep = "analyze_data"
    /\ \E o \in AnalyzeOutcomes :
          LET done == analyze_data_endpoint(req[w], o)
          IN  /\ resp' = [resp EXCEPT ![w] = done.resp]
              /\ log' = [log EXCEPT ![w] = done.calls]
    /\ pc' = [pc EXCEPT ![w] = "done"]
    /\ UNCHANGED <<req, loc, fs, nextId, af, fr>>

Search(w) ==
    /\ pc[w] = "begin"
    /\ req[w].ep = "search"
    /\ \E o \in SearchOutcomes :
          LET done == search(req[w], o)
          IN  /\ resp' = [resp EXCEPT ![w] = done.resp]
              /\ log' = [log EXCEPT ![w] = done.calls]
    /\ pc' = [pc EXCEPT ![w] = "done"]
    /\ UNCHANGED <<req, loc, fs, nextId, af, fr>>

\* what the handler does after the part t of it that ends before file.save
Begun(w, t) ==
    /\ log' = [log EXCEPT ![w] = t.calls]
    /\ IF t.kind = "continue"
       THEN /\ pc' = [pc EXCEPT ![w] = "save"]
            /\ loc' = [loc EXCEPT ![w].file_path = t.file_path]
            /\ UNCHANGED resp
       ELSE /\ pc' = [pc EXCEPT ![w] = "done"]
            /\ resp' = [resp EXCEPT ![w] = except_Exception(t, "Unhandled exception")]
            /\ UNCHANGED loc
    /\ UNCHANGED <<req, fs, nextId, af, fr>>

\* upload_file, lines 85-97
UploadBegin(w) ==
    /\ pc[w] = "begin"
    /\ req[w].ep = "upload"
    /\ \E blob \in UploadedBlobs :
          \E e \in chardet_detect(blob), m \in magic_from_buffer(blob) :
             Begun(w, upload_begin(req[w], blob, e, m))

\* upload_file, line 100
UploadSave(w) ==
    /\ pc[w] = "save"
    /\ req[w].ep = "upload"
    /\ \E saved \in file_save :
          /\ log' = [log EXCEPT ![w]["file.save"] = saved]
          /\ fs' = IF saved = "raise" THEN fs
                   ELSE [fs EXCEPT ![loc[w].file_path] = req[w].id]
          /\ loc' = [loc EXCEPT ![w].wrote = (saved # "raise"),
                                ![w].pending = IF saved = "ok" THEN NoResponse
                                               ELSE ErrorResponse(500, "Error saving file")]
          /\ pc' = [pc EXCEPT ![w] = IF saved = "ok" THEN "clean" ELSE "remove"]
    /\ UNCHANGED <<req, resp, nextId, af, fr>>

\* upload_file, lines 101-106
UploadClean(w) ==
    /\ pc[w] = "clean"
    /\ req[w].ep = "upload"
    /\ \E result \in clean_and_store_data(fs[loc[w].file_path]) :
          /\ log' = [log EXCEPT ![w]["clean_and_store_data"] = result]
          /\ loc' = [loc EXCEPT ![w].ingested = fs[loc[w].file_path],
                                ![w].result = result,
                                ![w].pending = IF result = "raise"
                                               THEN ErrorResponse(500, "Error saving file")
                                               ELSE NoResponse]
    /\ pc' = [pc EXCEPT ![w] = "remove"]
    /\ UNCHANGED <<req, resp, fs, nextId, af, fr>>

\* upload_file, lines 107-125
UploadRemove(w) ==
    /\ pc[w] = "remove"
    /\ req[w].ep = "upload"
    /\ \E removed \in os_remove(fs[loc[w].file_path]) :
          /\ log' = [log EXCEPT ![w]["os.remove"] = removed]
          /\ fs' = IF removed = "ok" THEN [fs EXCEPT ![loc[w].file_path] = 0] ELSE fs
          /\ resp' = [resp EXCEPT ![w] = upload_end(loc[w], removed)]
    /\ pc' = [pc EXCEPT ![w] = "done"]
    /\ UNCHANGED <<req, loc, nextId, af, fr>>

\* upload_from_url, lines 200-217
UrlBegin(w) ==
    /\ pc[w] = "begin"
    /\ req[w].ep = "upload_from_url"
    /\ \E on_absent \in {"raise", "None"}, got \in requests_get(req[w].url), blob \in UploadedBlobs :
          \E e \in chardet_detect(blob), m \in magic_from_buffer(blob) :
             Begun(w, url_begin(req[w], on_absent, got, blob, e, m))

\* upload_from_url, line 218
UrlSave(w) ==
    /\ pc[w] = "save"
    /\ req[w].ep = "upload_from_url"
    /\ \E saved \in file_save :
          /\ log' = [log EXCEPT ![w]["file.save"] = saved]
          /\ fs' = IF saved = "raise" THEN fs
                   ELSE [fs EXCEPT ![loc[w].file_path] = req[w].id]
          /\ loc' = [loc EXCEPT ![w].wrote = (saved # "raise")]
          /\ IF saved = "ok"
             THEN /\ pc' = [pc EXCEPT ![w] = "clean"]
                  /\ UNCHANGED resp
             ELSE /\ pc' = [pc EXCEPT ![w] = "done"]
                  /\ resp' = [resp EXCEPT ![w] =
                        except_Exception(Raised("OSError", NoCalls), "Unhandled exception")]
    /\ UNCHANGED <<req, nextId, af, fr>>

\* upload_from_url, lines 219-239
UrlClean(w) ==
    /\ pc[w] = "clean"
    /\ req[w].ep = "upload_from_url"
    /\ \E result \in clean_and_store_data(fs[loc[w].file_path]) :
          /\ log' = [log EXCEPT ![w]["clean_and_store_data"] = result]
          /\ loc' = [loc EXCEPT ![w].ingested = fs[loc[w].file_path],
                                ![w].result = result]
          /\ resp' = [resp EXCEPT ![w] = url_end(result)]
    /\ pc' = [pc EXCEPT ![w] = "done"]
    /\ UNCHANGED <<req, fs, nextId, af, fr>>

Next ==
    \E w \in Workers :
        \/ Receive(w)
        \/ Finish(w)
        \/ Analyze(w)
        \/ Search(w)
        \/ UploadBegin(w)
        \/ UploadSave(w)
        \/ UploadClean(w)
        \/ UploadRemove(w)
        \/ UrlBegin(w)
        \/ UrlSave(w)
        \/ UrlClean(w)

Spec == Init /\ [][Next]_vars

(***************************************************************************)
(* allowed_file on its own, over every file of the bounds                  *)
(***************************************************************************)
Extensions == {<<>>, CSV, <<"C", "S", "V">>, <<"c", "s">>}

\* file names with an extension, and one without a dot
CheckedFilenames ==
    {<<"a", ".">> \o x : x \in Extensions} \cup {<<"a", ".", "b", ".">> \o CSV, <<"a">>}

ApplyAllowedFile ==
    /\ ~af.applied
    /\ \E f \in CheckedFilenames, blob \in Blobs :
          \E e \in chardet_detect(blob), m \in magic_from_buffer(blob) :
             af' = [filename |-> f, blob |-> blob, encoding |-> e, mime |-> m,
                    applied |-> TRUE, result |-> allowed_file(f, blob, e, m)]
    /\ UNCHANGED <<pc, req, log, loc, resp, fs, nextId, fr>>

NextAllowed == ApplyAllowedFile

SpecAllowed == Init /\ [][NextAllowed]_vars

(***************************************************************************)
(* filter_resources on its own, over every catalog response of the bounds  *)
(***************************************************************************)
Formats == {CSV, UpperCSV, XLS}

Packages == {Package(fmts) : fmts \in SeqsUpTo(Formats, MaxResources)}

Catalogs == {CatalogError} \cup {CatalogResult(ps) : ps \in SeqsUpTo(Packages, MaxPackages)}

ApplyFilter ==
    /\ ~fr.applied
    /\ \E data \in Catalogs :
          fr' = [applied |-> TRUE, data |-> data, out |-> filter_resources(data)]
    /\ UNCHANGED <<pc, req, log, loc, resp, fs, nextId, af>>

NextFilter == ApplyFilter

SpecFilter == Init /\ [][NextFilter]_vars

(***************************************************************************)
(* Properties                                                              *)
(***************************************************************************)
UploadEndpoints == {"upload", "upload_from_url"}

\* the collaborators whose failure the handlers are to turn into an error
Fallible == Collaborators \ {"request.get_json"}

\* a collaborator call of the request handled by w raised
Failed(w) == \E c \in Fallible : log[w][c] \in {"raise", "raise_partial"}

IsJsonError(r) == r.body = "error" /\ r.status \in {400, 500}

\* C1: when an upload request (/upload or /upload_from_url) that wrote its
\* temporary file has finished, the file it wrote is gone from the upload
\* folder, whatever clean_and_store_data did.
C1_TempFileRemoved ==
    \A w \in Workers :
        (pc[w] = "done" /\ req[w].ep \in UploadEndpoints /\ loc[w].wrote)
            => fs[loc[w].file_path] # req[w].id

\* C2: no exception leaves a handler, and a request during which a
\* collaborator call raised is answered with a JSON error of status 400 or
\* 500.
C2_FailuresBecomeJsonErrors ==
    \A w \in Workers :
        pc[w] = "done" =>
            /\ resp[w].body \in {"error", "upload", "messages", "catalog"}
            /\ Failed(w) => IsJsonError(resp[w])

\* C2 witness: /upload whose ingestion succeeded and whose os.remove raised
\* in the finally clause is answered with a 500 JSON error.
C2_Witness ==
    \E w \in Workers :
        /\ pc[w] = "done"
        /\ req[w].ep = "upload"
        /\ log[w]["clean_and_store_data"] = "ok"
        /\ log[w]["os.remove"] = "raise"
        /\ resp[w] = ErrorResponse(500, "Unhandled exception")

\* C3: /analyze_data with a non-empty query for which get_sql_query returns
\* None or an empty string answers 200 with exactly one message, of role
\* assistant, saying that no SQL query could be generated, and calls neither
\* execute_query nor get_assistant_response nor generate_charts.
C3_NoQueryIsSuccess ==
    \A w \in Workers :
        (pc[w] = "done" /\ req[w].ep = "analyze_data"
            /\ log[w]["get_sql_query"] \in {"None", ""})
        => /\ req[w].query \notin {"None", ""}
           /\ resp[w].status = 200
           /\ resp[w].body = "messages"
           /\ Len(resp[w].messages) = 1
           /\ resp[w].messages[1].role = "assistant"
           /\ resp[w].messages[1].content = "Could not generate an SQL query"
           /\ \A c \in {"execute_query", "get_assistant_response", "generate_charts"} :
                  log[w][c] = "uncalled"

\* C3 witness: such a request, get_sql_query having returned an empty string.
C3_Witness ==
    \E w \in Workers :
        /\ pc[w] = "done"
        /\ req[w].ep = "analyze_data"
        /\ log[w]["get_sql_query"] = ""
        /\ resp[w].status = 200

\* the request lacks the input its endpoint requires
LacksInput(r) ==
    CASE r.ep = "upload" -> ~r.has_file \/ r.filename = <<>>
      [] r.ep \in {"analyze_data", "search"} -> r.body # "object" \/ r.query \in {"None", ""}
      [] r.ep = "upload_from_url" -> r.body = "object" /\ r.url = <<>>
      [] OTHER -> FALSE

\* C4: a request that lacks its required input (file, query, url) is
\* answered 400 with a JSON error, and no database, completion or HTTP
\* collaborator is called for it.
C4_MissingInputIs400 ==
    \A w \in Workers :
        (pc[w] = "done" /\ LacksInput(req[w]))
        => /\ resp[w].status = 400
           /\ resp[w].body = "error"
           /\ \A c \in Fallible : log[w][c] = "uncalled"

\* C5: when the upstream HTTP request raises or returns a non-success
\* status, /search and /upload_from_url answer with a 500 JSON error, and
\* /upload_from_url writes no file and does not call clean_and_store_data.
C5_UpstreamFailureIs500 ==
    \A w \in Workers :
        (pc[w] = "done" /\ req[w].ep \in {"search", "upload_from_url"}
            /\ log[w]["requests.get"] \in {"raise", "404", "503"})
        => /\ resp[w].status = 500
           /\ resp[w].body = "error"
           /\ ~loc[w].wrote
           /\ log[w]["clean_and_store_data"] = "uncalled"

\* C6: /analyze_data whose generate_charts raised, after synthesis,
\* execution and narration succeeded, answers 200 with the narration
\* message and no chart message.
C6_ChartFailureDegrades ==
    \A w \in Workers :
        (pc[w] = "done" /\ req[w].ep = "analyze_data"
            /\ log[w]["generate_charts"] = "raise")
        => /\ resp[w].status = 200
           /\ resp[w].messages = <<NarrationMessage>>

\* C7: /analyze_data whose execute_query reported a database error answers
\* with a message narrating the failure, not with an HTTP 500 error.
C7_QueryErrorIsNarrated ==
    \A w \in Workers :
        (pc[w] = "done" /\ req[w].ep = "analyze_data"
            /\ log[w]["execute_query"] = "raise")
        => /\ resp[w].status # 500
           /\ resp[w].body = "messages"
           /\ \E i \in 1..Len(resp[w].messages) : resp[w].messages[i].role = "assistant"

\* C8: for a file name with an extension and any outcome of charset
\* detection, allowed_file returns a boolean: (the extension is csv and the
\* blob decodes under the detected encoding) or the sniffed MIME type is
\* allowed.
C8_AllowedFileIsTotal ==
    (af.applied /\ Len(rsplit_dot(af.filename)) = 2)
    => /\ af.result.kind = "return"
       /\ af.result.value =
            (\/ /\ lower(rsplit_dot(af.filename)[2]) = CSV
                /\ decode(af.blob, af.encoding) = "ok"
             \/ af.mime \in ALLOWED_MIME_TYPES)

\* every spelling of csv that lowercases to csv
CsvSpellings == {<<c, s, v>> : c \in {"c", "C"}, s \in {"s", "S"}, v \in {"v", "V"}}

OffersCsv(package) ==
    \E i \in 1..Len(package.resources) : package.resources[i].format \in CsvSpellings

\* the positions of the packages of a list that offer a csv resource
CsvPositions(packages) == {i \in 1..Len(packages) : OffersCsv(packages[i])}

\* the k-th smallest of a set of positions
Kth(positions, k) ==
    CHOOSE i \in positions : Cardinality({j \in positions : j <= i}) = k

\* C9: filter_resources returns a response without 'result' unchanged;
\* otherwise its results are exactly the input packages that have a resource
\* whose format lowercases to csv, in their input order, nothing else of the
\* response being changed.
C9_FilterKeepsCsvPackages ==
    fr.applied =>
        IF "result" \notin DOMAIN fr.data
        THEN fr.out = fr.data
        ELSE LET in == fr.data.result.results
                 out == fr.out.result.results
             IN  /\ Len(out) = Cardinality(CsvPositions(in))
                 /\ \A k \in 1..Len(out) : out[k] = in[Kth(CsvPositions(in), k)]
                 /\ [fr.out EXCEPT !.result.results = in] = fr.data

\* C9 witness: a response whose first package has no csv resource and whose
\* second offers only a resource of format CSV; the second alone is kept.
C9_Witness ==
    /\ fr.applied
    /\ "result" \in DOMAIN fr.data
    /\ fr.data.result.results = <<Package(<<XLS>>), Package(<<XLS, UpperCSV>>)>>
    /\ fr.out.result.results = <<Package(<<XLS, UpperCSV>>)>>

\* C10: an upload request ingests the content it saved itself, and between
\* its file.save and the end of its ingestion its temporary file holds that
\* content: no other request overwrites or removes it.
C10_UploadsDoNotInterfere ==
    \A w \in Workers :
        req[w].ep \in UploadEndpoints =>
            /\ loc[w].ingested # 0 => loc[w].ingested = req[w].id
            /\ pc[w] = "clean" => fs[loc[w].file_path] = req[w].id

====
